---- MODULE Spec2Model ----
(***************************************************************************)
(* Verification model of the curation scripts of dymetabonet               *)
(* (src/application): the refinement of the structured model               *)
(* (refinement.py), the reconciliation of the tree description             *)
(* (reconciliation.py, curation_recon2m2_metanetx.py, utility.py) and the  *)
(* equation parser of the extraction (extraction.py).                      *)
(*                                                                         *)
(* Python objects that the code copies and mutates (dictionaries, lists,   *)
(* tree elements) live in a heap of addressed objects, so that aliasing    *)
(* between an argument and a result is something a property can observe.   *)
(* Text (identifiers of the tree, equations) is a sequence of one-character*)
(* strings.                                                                *)
(***************************************************************************)
EXTENDS Integers, Sequences, FiniteSets, TLC

VARIABLES
    \* ---- refinement.py ----
    heap,                 \* address -> object (dict, list holder, record)
    fresh,                \* generation number of the next copy
    removal_metabolites,  \* table: sequence of rows
    removal_reactions,    \* table: sequence of rows
    metabolites_original, \* address of the argument of the running call
    reactions_original,   \* address of the argument of the running call
    metabolites_novel,    \* address of the working copy / result
    reactions_novel,      \* address of the working copy / result
    row,                  \* index of the next row of the running loop
    pc,                   \* position in the procedure
    pass,                 \* number of the application of remove_metabolites
    before,               \* values of the arguments when the call started
    prior,                \* values of the working copies before the last row
    first,                \* values returned by the first application
    error,                \* exception that ended the procedure, or "none"
    \* ---- reconciliation.py ----
    content,              \* address of the tree given to the running stage
    product,              \* address of the tree the stage works on / returns
    earlier,              \* address of the result of the same stage on the
                          \* same tree, when the stage is run once more
    metabolites_identifiers, \* table: sequence of rows
    \* ---- extraction.py ----
    terms,                \* the terms that the equation is written from
    equation,             \* text of the equation of a reaction
    participants,         \* what extract_reaction_participants returned
    reversibility,        \* what extract_reaction_reversibility returned
    source_reactions,     \* table: sequence of rows
    source_genes,         \* table: sequence of rows
    reactions,            \* the dictionary that extract_reactions fills
    source_metabolite,    \* a row of the table of metabolites
    entries,              \* the entries that the reference of the row is
                          \* written from
    metabolite,           \* what extract_metabolite returned
    reference_key,        \* argument key of extract_reference_information
    identifiers           \* what extract_reference_information returned

\* the variables that only the refinement uses
refine_only == <<removal_metabolites, removal_reactions,
                 metabolites_original, reactions_original, metabolites_novel,
                 reactions_novel>>

\* the variables that only the reconciliation uses
tree_only == <<content, product, earlier, metabolites_identifiers>>

\* the variables of extract_reactions
run_only == <<source_reactions, source_genes, reactions>>

\* the variables of extract_metabolite and extract_reference_information
reference_only == <<source_metabolite, entries, metabolite, reference_key,
                    identifiers>>

\* the variables that only the extraction uses
parse_only == <<terms, equation, participants, reversibility, run_only,
                reference_only>>

\* extract_reactions has not been called
run_idle ==
    /\ source_reactions = <<>>
    /\ source_genes = <<>>
    /\ reactions = <<>>

\* extract_metabolite and extract_reference_information have not been called
reference_idle ==
    /\ source_metabolite = <<>>
    /\ entries = <<>>
    /\ metabolite = <<>>
    /\ reference_key = <<>>
    /\ identifiers = <<>>

vars == <<heap, fresh, row, pc, pass, before, prior, first, error,
          refine_only, tree_only, parse_only>>

(***************************************************************************)
(* Bounds of the inputs.                                                   *)
(***************************************************************************)
MaxRows == 2
MaxRemovalReactions == 1

Ids == {"MNXM1", "MNXM2", "MNXM3"}
ReactionIds == {"MNXR1", "MNXR2"}

Range(s) == {s[i] : i \in DOMAIN s}

(***************************************************************************)
(* Heap of the structured model.                                           *)
(***************************************************************************)
Addr(g, kind, key, idx) == [gen |-> g, kind |-> kind, key |-> key, idx |-> idx]
Null == Addr(0 - 1, "null", "", 0)

Relocate(a, g) == [a EXCEPT !.gen = g]

Children(h, a) ==
    {h[a].items[k] : k \in DOMAIN h[a].items} \cup Range(h[a].list)

RECURSIVE ReachN(_, _, _)
ReachN(h, as, n) ==
    IF n = 0 THEN as
    ELSE ReachN(h, as \cup UNION {Children(h, a) : a \in as}, n - 1)

Reachable(h, root) == IF root = Null THEN {} ELSE ReachN(h, {root}, 3)

\* a participant record of a reaction, as extraction.py builds it
Participant(m, c, k, r) ==
    [metabolite |-> m, compartment |-> c, coefficient |-> k, role |-> r]

\* the value of the metabolites dictionary at an address
metabolites_value(h, a) ==
    [k \in DOMAIN h[a].items |-> h[h[a].items[k]].val]

\* the value of the reactions dictionary at an address
reactions_value(h, a) ==
    [r \in DOMAIN h[a].items |->
        LET rec == h[h[a].items[r]]
        IN  [identifier |-> rec.val.identifier,
             participants |-> [i \in DOMAIN rec.list |-> h[rec.list[i]].val]]]

\* the addresses of the participant records of a reactions dictionary
participants_of(h, a) ==
    UNION {Range(h[h[a].items[r]].list) : r \in DOMAIN h[a].items}

(***************************************************************************)
(* The source that read_source hands to main: a metabolites dictionary and *)
(* a reactions dictionary, each reaction with its list of participants.    *)
(***************************************************************************)
SourceHeap(mets, parts) ==
    LET ma == Addr(0, "metabolites", "", 0)
        ra == Addr(0, "reactions", "", 0)
        as == {ma, ra}
              \cup {Addr(0, "metabolite", k, 0) : k \in mets}
              \cup {Addr(0, "reaction", r, 0) : r \in DOMAIN parts}
              \cup UNION {{Addr(0, "participant", r, i) :
                              i \in DOMAIN parts[r]} : r \in DOMAIN parts}
    IN  [a \in as |->
            CASE a.kind = "metabolites" ->
                    [kind |-> "dict", list |-> <<>>, val |-> <<>>,
                     items |-> [k \in mets |-> Addr(0, "metabolite", k, 0)]]
              [] a.kind = "reactions" ->
                    [kind |-> "dict", list |-> <<>>, val |-> <<>>,
                     items |-> [r \in DOMAIN parts |->
                                   Addr(0, "reaction", r, 0)]]
              [] a.kind = "metabolite" ->
                    [kind |-> "record", list |-> <<>>, items |-> <<>>,
                     val |-> [identifier |-> a.key, name |-> a.key]]
              [] a.kind = "reaction" ->
                    [kind |-> "record", items |-> <<>>,
                     val |-> [identifier |-> a.key],
                     list |-> [i \in DOMAIN parts[a.key] |->
                                  Addr(0, "participant", a.key, i)]]
              [] OTHER ->
                    [kind |-> "record", list |-> <<>>, items |-> <<>>,
                     val |-> parts[a.key][a.idx]]]

(***************************************************************************)
(* copy.copy of the object at root: a new top-level object that shares     *)
(* every child with the original.                                          *)
(***************************************************************************)
shallowcopy(h, root, g) ==
    [a \in DOMAIN h \cup {Relocate(root, g)} |->
        IF a \in DOMAIN h THEN h[a] ELSE h[root]]

(***************************************************************************)
(* copy.deepcopy of the object at root: every object reachable from root   *)
(* is copied to a new address, and the copies refer to copies.             *)
(***************************************************************************)
deepcopy(h, root, g) ==
    LET olds == Reachable(h, root)
        news == {Relocate(a, g) : a \in olds}
        Old(n) == CHOOSE a \in olds : Relocate(a, g) = n
    IN  [a \in DOMAIN h \cup news |->
            IF a \in DOMAIN h THEN h[a]
            ELSE LET o == h[Old(a)]
                 IN  [o EXCEPT
                        !.items = [k \in DOMAIN o.items |->
                                      Relocate(o.items[k], g)],
                        !.list = [i \in DOMAIN o.list |->
                                      Relocate(o.list[i], g)]]]

\* a loop body that leaves the metabolites dictionary as it is
delete_nothing(h, ma, removal) == [heap |-> h, error |-> "none"]

\* a deletion without the test of membership: del raises KeyError
delete_unguarded(h, ma, removal) ==
    IF removal \in DOMAIN h[ma].items
    THEN [heap |-> [h EXCEPT ![ma].items =
                       [k \in DOMAIN h[ma].items \ {removal} |->
                           h[ma].items[k]]],
          error |-> "none"]
    ELSE [heap |-> h, error |-> "KeyError"]

(***************************************************************************)
(* remove_metabolites, lines 185-186: delete the record of the metabolite  *)
(* if the dictionary has it.  The result carries the exception, if any.    *)
(***************************************************************************)
delete_metabolite(h, ma, removal) ==
    IF removal \in DOMAIN h[ma].items
    THEN [heap |-> [h EXCEPT ![ma].items =
                       [k \in DOMAIN h[ma].items \ {removal} |->
                           h[ma].items[k]]],
          error |-> "none"]
    ELSE [heap |-> h, error |-> "none"]

\* a scan that leaves a reaction after its first match
change_first_participant(h, ra, removal, replacement) ==
    LET Matches(r) == {i \in DOMAIN h[h[ra].items[r]].list :
                          h[h[h[ra].items[r]].list[i]].val.metabolite = removal}
        firsts == UNION {{h[h[ra].items[r]].list[i] :
                             i \in {i \in Matches(r) :
                                       \A j \in Matches(r) : i <= j}} :
                         r \in DOMAIN h[ra].items}
    IN  [a \in DOMAIN h |->
            IF a \in firsts
            THEN [h[a] EXCEPT !.val.metabolite = replacement]
            ELSE h[a]]

\* a rewrite that builds the participant anew, with the coefficient 1
change_participants_anew(h, ra, removal, replacement) ==
    [a \in DOMAIN h |->
        IF a \in participants_of(h, ra) /\ h[a].val.metabolite = removal
        THEN [h[a] EXCEPT !.val = Participant(replacement,
                                             h[a].val.compartment, 1,
                                             h[a].val.role)]
        ELSE h[a]]

(***************************************************************************)
(* remove_metabolites, lines 188-192: every participant of every reaction  *)
(* that references the removal references the replacement afterwards.      *)
(***************************************************************************)
change_participants(h, ra, removal, replacement) ==
    [a \in DOMAIN h |->
        IF a \in participants_of(h, ra) /\ h[a].val.metabolite = removal
        THEN [h[a] EXCEPT !.val.metabolite = replacement]
        ELSE h[a]]

\* the body of the loop of remove_metabolites for one row
remove_metabolites_row(h, ma, ra, r) ==
    LET removal == r.removal_identifier
        replacement == r.replacement_identifier
        deletion == delete_metabolite(h, ma, removal)
    IN  IF deletion.error # "none" THEN deletion
        ELSE [heap |-> change_participants(deletion.heap, ra, removal,
                                           replacement),
              error |-> "none"]

\* a deletion without the test of membership: del raises KeyError
delete_reaction_unguarded(h, ra, removal) ==
    IF removal \in DOMAIN h[ra].items
    THEN [heap |-> [h EXCEPT ![ra].items =
                       [k \in DOMAIN h[ra].items \ {removal} |->
                           h[ra].items[k]]],
          error |-> "none"]
    ELSE [heap |-> h, error |-> "KeyError"]

(***************************************************************************)
(* remove_reactions, lines 222-223: delete the record of the reaction.     *)
(***************************************************************************)
delete_reaction(h, ra, removal) ==
    IF removal \in DOMAIN h[ra].items
    THEN [heap |-> [h EXCEPT ![ra].items =
                       [k \in DOMAIN h[ra].items \ {removal} |->
                           h[ra].items[k]]],
          error |-> "none"]
    ELSE [heap |-> h, error |-> "none"]

\* the values of the two working copies
novel_value(h, ma, ra) ==
    [metabolites |-> metabolites_value(h, ma),
     reactions |-> reactions_value(h, ra)]

NoValue == [metabolites |-> <<>>, reactions |-> <<>>]

(***************************************************************************)
(* Inputs.                                                                 *)
(***************************************************************************)
SeqsUpTo(S, n) == UNION {[1..k -> S] : k \in 0..n}

\* a row replaces a metabolite by another one
RemovalRows ==
    {r \in [removal_identifier : Ids, replacement_identifier : Ids] :
        r.removal_identifier # r.replacement_identifier}

ReactionRows == [identifier : ReactionIds \cup {"MNXR9"}]

\* participants of the source: the metabolite is drawn, the rest is fixed
SourceParticipants ==
    {[r \in ReactionIds |->
        IF r = "MNXR1"
        THEN <<Participant(m[1], "MNXC3", 2, "reactant"),
               Participant(m[2], "MNXC3", 1, "product")>>
        ELSE <<Participant(m[2], "MNXC2", 1, "reactant")>>] :
     m \in [1..2 -> Ids]}

\* up to the names of the identifiers, the dictionaries that lack at most
\* one of the identifiers that participants and rows can name
SourceMetabolites == {{"MNXM1", "MNXM2"}, Ids}

SourceMetabolitesAddr == Addr(0, "metabolites", "", 0)
SourceReactionsAddr == Addr(0, "reactions", "", 0)

InitRefine ==
    /\ \E ms \in SourceMetabolites, ps \in SourceParticipants :
          heap = SourceHeap(ms, ps)
    /\ fresh = 1
    /\ removal_metabolites \in SeqsUpTo(RemovalRows, MaxRows)
    /\ removal_reactions = <<>>
    /\ metabolites_original = Null
    /\ reactions_original = Null
    /\ metabolites_novel = Null
    /\ reactions_novel = Null
    /\ row = 0
    /\ pc = "main"
    /\ pass = 0
    /\ before = NoValue
    /\ prior = NoValue
    /\ first = NoValue
    /\ error = "none"
    /\ content = Null
    /\ product = Null
    /\ earlier = Null
    /\ metabolites_identifiers = <<>>
    /\ terms = <<>>
    /\ equation = <<>>
    /\ participants = <<>>
    /\ reversibility = FALSE
    /\ run_idle
    /\ reference_idle

(***************************************************************************)
(* remove_metabolites, lines 178-179: the call copies both arguments.      *)
(***************************************************************************)
remove_metabolites_call(mo, ro) ==
    /\ heap' = deepcopy(deepcopy(heap, mo, fresh), ro, fresh)
    /\ fresh' = fresh + 1
    /\ metabolites_original' = mo
    /\ reactions_original' = ro
    /\ metabolites_novel' = Relocate(mo, fresh)
    /\ reactions_novel' = Relocate(ro, fresh)
    /\ before' = novel_value(heap, mo, ro)
    /\ prior' = novel_value(heap, mo, ro)
    /\ row' = 1
    /\ pc' = "remove_metabolites"
    /\ pass' = pass + 1
    /\ UNCHANGED <<removal_metabolites, removal_reactions, first, error>>
    /\ UNCHANGED <<tree_only, parse_only>>

\* main, lines 244-248: the first application, on the source
MainRemoveMetabolites ==
    /\ pc = "main"
    /\ remove_metabolites_call(SourceMetabolitesAddr, SourceReactionsAddr)

\* a second application of the same table, on the result of the first
AgainRemoveMetabolites ==
    /\ pc = "removed_metabolites"
    /\ pass = 1
    /\ remove_metabolites_call(metabolites_novel, reactions_novel)

\* remove_metabolites, lines 180-192: one row of the table
RemoveMetabolitesRow ==
    /\ pc = "remove_metabolites"
    /\ row <= Len(removal_metabolites)
    /\ LET result == remove_metabolites_row(heap, metabolites_novel,
                         reactions_novel, removal_metabolites[row])
       IN  /\ prior' = novel_value(heap, metabolites_novel, reactions_novel)
           /\ row' = row + 1
           /\ IF result.error = "none"
              THEN /\ heap' = result.heap
                   /\ UNCHANGED <<pc, error>>
              ELSE /\ pc' = "raised"
                   /\ error' = result.error
                   /\ UNCHANGED heap
    /\ UNCHANGED <<fresh, removal_metabolites, removal_reactions,
                   metabolites_original, reactions_original,
                   metabolites_novel, reactions_novel, pass, before, first>>
    /\ UNCHANGED <<tree_only, parse_only>>

\* remove_metabolites, lines 194-197: the working copies are the result
RemoveMetabolitesReturn ==
    /\ pc = "remove_metabolites"
    /\ row > Len(removal_metabolites)
    /\ pc' = "removed_metabolites"
    /\ first' = IF pass = 1
                THEN novel_value(heap, metabolites_novel, reactions_novel)
                ELSE first
    /\ UNCHANGED <<heap, fresh, removal_metabolites, removal_reactions,
                   metabolites_original, reactions_original,
                   metabolites_novel, reactions_novel, row, pass, before,
                   prior, error>>
    /\ UNCHANGED <<tree_only, parse_only>>

(***************************************************************************)
(* main, lines 250-253, and remove_reactions, line 217: the reactions that *)
(* remove_metabolites returned are the argument, and the call copies them. *)
(***************************************************************************)
MainRemoveReactions ==
    /\ pc = "removed_metabolites"
    /\ pass = 1
    /\ \E table \in SeqsUpTo(ReactionRows, MaxRemovalReactions) :
          removal_reactions' = table
    /\ heap' = deepcopy(heap, reactions_novel, fresh)
    /\ fresh' = fresh + 1
    /\ metabolites_original' = Null
    /\ reactions_original' = reactions_novel
    /\ reactions_novel' = Relocate(reactions_novel, fresh)
    /\ before' = [metabolites |-> <<>>,
                  reactions |-> reactions_value(heap, reactions_novel)]
    /\ prior' = novel_value(heap, metabolites_novel, reactions_novel)
    /\ row' = 1
    /\ pc' = "remove_reactions"
    /\ UNCHANGED <<removal_metabolites, metabolites_novel, pass, first,
                   error>>
    /\ UNCHANGED <<tree_only, parse_only>>

\* remove_reactions, lines 218-223: one row of the table
RemoveReactionsRow ==
    /\ pc = "remove_reactions"
    /\ row <= Len(removal_reactions)
    /\ LET result == delete_reaction(heap, reactions_novel,
                                     removal_reactions[row].identifier)
       IN  /\ prior' = novel_value(heap, metabolites_novel, reactions_novel)
           /\ row' = row + 1
           /\ IF result.error = "none"
              THEN /\ heap' = result.heap
                   /\ UNCHANGED <<pc, error>>
              ELSE /\ pc' = "raised"
                   /\ error' = result.error
                   /\ UNCHANGED heap
    /\ UNCHANGED <<fresh, removal_metabolites, removal_reactions,
                   metabolites_original, reactions_original,
                   metabolites_novel, reactions_novel, pass, before, first>>
    /\ UNCHANGED <<tree_only, parse_only>>

\* remove_reactions, line 225
RemoveReactionsReturn ==
    /\ pc = "remove_reactions"
    /\ row > Len(removal_reactions)
    /\ pc' = "removed_reactions"
    /\ UNCHANGED <<heap, fresh, removal_metabolites, removal_reactions,
                   metabolites_original, reactions_original,
                   metabolites_novel, reactions_novel, row, pass, before,
                   prior, first, error>>
    /\ UNCHANGED <<tree_only, parse_only>>

(***************************************************************************)
(* main, lines 260-263: the name change_metabolites is assigned in main,   *)
(* so it is a local name of main, and the module defines no function of    *)
(* this name: the call reads the local name before its assignment.         *)
(***************************************************************************)
MainChangeMetabolites ==
    /\ pc = "removed_reactions"
    /\ pc' = "change_metabolites"
    /\ error' = "UnboundLocalError"
    /\ UNCHANGED <<heap, fresh, removal_metabolites, removal_reactions,
                   metabolites_original, reactions_original,
                   metabolites_novel, reactions_novel, row, pass, before,
                   prior, first>>
    /\ UNCHANGED <<tree_only, parse_only>>

NextRefine ==
    \/ MainRemoveMetabolites
    \/ RemoveMetabolitesRow
    \/ RemoveMetabolitesReturn
    \/ AgainRemoveMetabolites
    \/ MainRemoveReactions
    \/ RemoveReactionsRow
    \/ RemoveReactionsReturn
    \/ MainChangeMetabolites

SpecRefine == InitRefine /\ [][NextRefine]_vars

(***************************************************************************)
(* Text.  A Python str is a sequence of one-character strings.             *)
(***************************************************************************)
\* s[i:] of Python, with i counted from 1
Tail_(s, i) == SubSeq(s, i, Len(s))

\* s.startswith(t, i - 1): t occurs in s at position i
OccursAt(s, t, i) ==
    /\ i >= 1
    /\ i + Len(t) - 1 <= Len(s)
    /\ SubSeq(s, i, i + Len(t) - 1) = t

\* t in s
Contains(s, t) == \E i \in 1..(Len(s) + 1) : OccursAt(s, t, i)

\* s.replace(old, new) for a non-empty old: the occurrences are found from
\* the left and do not overlap
RECURSIVE ReplaceFrom(_, _, _, _)
ReplaceFrom(s, old, new, i) ==
    IF i > Len(s) THEN <<>>
    ELSE IF OccursAt(s, old, i)
         THEN new \o ReplaceFrom(s, old, new, i + Len(old))
         ELSE <<s[i]>> \o ReplaceFrom(s, old, new, i + 1)

Replace(s, old, new) == ReplaceFrom(s, old, new, 1)

Underscore == <<"_">>
BoundaryWord == <<"b", "o", "u", "n", "d", "a", "r", "y">>
CompartmentLetters == {"e", "c", "i", "g", "l", "m", "n", "r", "x"}
SpeciesPrefix == <<"M", "_">>
AboutPrefix == <<"#", "M", "_">>

\* the pattern _[eciglmnrx]_boundary matches in s at position i
BoundaryMatchAt(s, i) ==
    /\ i + 1 <= Len(s)
    /\ s[i] = "_"
    /\ s[i + 1] \in CompartmentLetters
    /\ OccursAt(s, Underscore \o BoundaryWord, i + 2)

\* re.sub(r"_[eciglmnrx]_boundary", "_b", s)
RECURSIVE SubBoundaryFrom(_, _)
SubBoundaryFrom(s, i) ==
    IF i > Len(s) THEN <<>>
    ELSE IF BoundaryMatchAt(s, i)
         THEN <<"_", "b">> \o SubBoundaryFrom(s, i + 2 + 1 + Len(BoundaryWord))
         ELSE <<s[i]>> \o SubBoundaryFrom(s, i + 1)

SubBoundary(s) == SubBoundaryFrom(s, 1)

\* re.sub(r"^M_", "", s)
SubSpeciesPrefix(s) ==
    IF OccursAt(s, SpeciesPrefix, 1) THEN Tail_(s, Len(SpeciesPrefix) + 1)
    ELSE s

\* re.sub(r"^#M_", "#", s)
SubAboutPrefix(s) ==
    IF OccursAt(s, AboutPrefix, 1)
    THEN <<"#">> \o Tail_(s, Len(AboutPrefix) + 1)
    ELSE s

(***************************************************************************)
(* The tree of the model description.  The content has the three sections  *)
(* that copy_interpret_content_recon2m2 names; a section lists its         *)
(* elements in document order; a species lists the descriptions of its     *)
(* annotation and a reaction lists its speciesReference elements.          *)
(***************************************************************************)
Sections == {"compartments", "metabolites", "reactions"}

Species(id, compartment) == [id |-> id, compartment |-> compartment]

TreeHeap(compartments, species, references) ==
    LET as == {Addr(0, "content", "", 0)}
              \cup {Addr(0, sec, "", 0) : sec \in Sections}
              \cup {Addr(0, "compartment", "", i) : i \in DOMAIN compartments}
              \cup {Addr(0, "species", "", i) : i \in DOMAIN species}
              \cup {Addr(0, "description", "", i) : i \in DOMAIN species}
              \cup {Addr(0, "reaction", "", i) : i \in DOMAIN references}
              \cup UNION {{Addr(0, "speciesReference", "", 10 * i + j) :
                              j \in DOMAIN references[i]} :
                          i \in DOMAIN references}
        Element(v, l) ==
            [kind |-> "element", items |-> <<>>, val |-> v, list |-> l]
    IN  [a \in as |->
            CASE a.kind = "content" ->
                    [kind |-> "tree", list |-> <<>>, val |-> <<>>,
                     items |-> [sec \in Sections |-> Addr(0, sec, "", 0)]]
              [] a.kind = "compartments" ->
                    Element(<<>>, [i \in DOMAIN compartments |->
                                      Addr(0, "compartment", "", i)])
              [] a.kind = "metabolites" ->
                    Element(<<>>, [i \in DOMAIN species |->
                                      Addr(0, "species", "", i)])
              [] a.kind = "reactions" ->
                    Element(<<>>, [i \in DOMAIN references |->
                                      Addr(0, "reaction", "", i)])
              [] a.kind = "compartment" ->
                    Element(compartments[a.idx], <<>>)
              [] a.kind = "species" ->
                    Element(species[a.idx],
                            <<Addr(0, "description", "", a.idx)>>)
              [] a.kind = "description" ->
                    Element([about |-> <<"#">> \o species[a.idx].id], <<>>)
              [] a.kind = "reaction" ->
                    Element([id |-> a.idx],
                            [j \in DOMAIN references[a.idx] |->
                                Addr(0, "speciesReference", "", 10 * a.idx + j)])
              [] OTHER ->
                    Element([species |->
                                references[a.idx \div 10][a.idx % 10]], <<>>)]

\* the elements of a section of the tree at an address, in document order
section(h, c, sec) == h[h[c].items[sec]].list

\* the value of the tree at an address
tree_value(h, c) ==
    [compartments |-> [i \in DOMAIN section(h, c, "compartments") |->
                          h[section(h, c, "compartments")[i]].val],
     metabolites |-> [i \in DOMAIN section(h, c, "metabolites") |->
                         LET e == h[section(h, c, "metabolites")[i]]
                         IN  [id |-> e.val.id,
                              compartment |-> e.val.compartment,
                              about |-> [j \in DOMAIN e.list |->
                                            h[e.list[j]].val.about]]],
     reactions |-> [i \in DOMAIN section(h, c, "reactions") |->
                       LET e == h[section(h, c, "reactions")[i]]
                       IN  [j \in DOMAIN e.list |-> h[e.list[j]].val.species]]]

\* the attributes of the elements at the addresses as
attributes(h, as) == {h[a].val : a \in as}

\* the tree with the attributes of the elements at as replaced through f
map_elements(h, as, f) ==
    [a \in DOMAIN h |-> IF a \in as THEN [h[a] EXCEPT !.val = f[h[a].val]]
                        ELSE h[a]]

species_of(h, c) == Range(section(h, c, "metabolites"))
compartments_of(h, c) == Range(section(h, c, "compartments"))
descriptions_of(h, c) == UNION {Range(h[a].list) : a \in species_of(h, c)}
references_of(h, c) ==
    UNION {Range(h[a].list) : a \in Range(section(h, c, "reactions"))}

\* a copy that shares the elements of the tree with the original
copy_interpret_content_shallow(h, c, g) ==
    [heap |-> shallowcopy(h, c, g), content |-> Relocate(c, g)]

(***************************************************************************)
(* utility.copy_interpret_content_recon2m2, lines 326-347 (the same body   *)
(* is copyInterpretModelContent of curation_recon2m2_metanetx.py, and the  *)
(* stages of reconciliation.py call it as copy_interpret_model_content):   *)
(* a deep copy of the content, and the references into the copy.           *)
(***************************************************************************)
copy_interpret_content_recon2m2(h, c, g) ==
    [heap |-> deepcopy(h, c, g), content |-> Relocate(c, g)]

(***************************************************************************)
(* change_model_compartment, lines 270-275, on the copy at c.              *)
(***************************************************************************)
change_model_compartment(h, c) ==
    LET cs == compartments_of(h, c)
    IN  map_elements(h, cs,
            [v \in attributes(h, cs) |->
                IF v.id = "e" THEN [v EXCEPT !.name = "extracellular region"]
                ELSE v])

\* a change that leaves the compartment of the species as it is
change_model_boundary_without_compartment(h, c) ==
    LET cs == compartments_of(h, c)
        ms == species_of(h, c)
        rs == references_of(h, c)
        h1 == map_elements(h, cs,
                  [v \in attributes(h, cs) |->
                      IF v.id = "b" THEN [v EXCEPT !.name = "model boundary"]
                      ELSE v])
        h2 == map_elements(h1, ms,
                  [v \in attributes(h1, ms) |->
                      IF Contains(v.id, BoundaryWord)
                      THEN [v EXCEPT !.id = SubBoundary(v.id)]
                      ELSE v])
    IN  map_elements(h2, rs,
            [v \in attributes(h2, rs) |->
                IF Contains(v.species, BoundaryWord)
                THEN [v EXCEPT !.species = SubBoundary(v.species)]
                ELSE v])

\* a change that leaves the speciesReferences of the reactions as they are
change_model_boundary_species_only(h, c) ==
    LET cs == compartments_of(h, c)
        ms == species_of(h, c)
        h1 == map_elements(h, cs,
                  [v \in attributes(h, cs) |->
                      IF v.id = "b" THEN [v EXCEPT !.name = "model boundary"]
                      ELSE v])
    IN  map_elements(h1, ms,
            [v \in attributes(h1, ms) |->
                IF Contains(v.id, BoundaryWord)
                THEN [v EXCEPT !.id = SubBoundary(v.id),
                               !.compartment = "b"]
                ELSE v])

(***************************************************************************)
(* change_model_boundary, lines 213-244, on the copy at c.                 *)
(***************************************************************************)
change_model_boundary(h, c) ==
    LET cs == compartments_of(h, c)
        ms == species_of(h, c)
        rs == references_of(h, c)
        h1 == map_elements(h, cs,
                  [v \in attributes(h, cs) |->
                      IF v.id = "b" THEN [v EXCEPT !.name = "model boundary"]
                      ELSE v])
        h2 == map_elements(h1, ms,
                  [v \in attributes(h1, ms) |->
                      IF Contains(v.id, BoundaryWord)
                      THEN [v EXCEPT !.id = SubBoundary(v.id),
                                     !.compartment = "b"]
                      ELSE v])
    IN  map_elements(h2, rs,
            [v \in attributes(h2, rs) |->
                IF Contains(v.species, BoundaryWord)
                THEN [v EXCEPT !.species = SubBoundary(v.species)]
                ELSE v])

(***************************************************************************)
(* remove_model_identifier_prefix, lines 155-186, on the copy at c.        *)
(***************************************************************************)
remove_model_identifier_prefix(h, c) ==
    LET ms == species_of(h, c)
        ds == descriptions_of(h, c)
        rs == references_of(h, c)
        h1 == map_elements(h, ms,
                  [v \in attributes(h, ms) |->
                      [v EXCEPT !.id = SubSpeciesPrefix(v.id)]])
        h2 == map_elements(h1, ds,
                  [v \in attributes(h1, ds) |->
                      [v EXCEPT !.about = SubAboutPrefix(v.about)]])
    IN  map_elements(h2, rs,
            [v \in attributes(h2, rs) |->
                [v EXCEPT !.species = SubSpeciesPrefix(v.species)]])

\* targets without the delimiter that follows the identifier in an id
translation_targets_bare(r) ==
    [original |-> r.identifier_original, novel |-> r.identifier_novel]

(***************************************************************************)
(* change_model_metabolites_identifiers, lines 307-310: the targets.       *)
(***************************************************************************)
translation_targets(r) ==
    [original |-> r.identifier_original \o Underscore,
     novel |-> r.identifier_novel \o Underscore]

\* a row that leaves the speciesReferences of the reactions as they are
change_identifiers_row_species_only(h, c, r) ==
    LET ms == species_of(h, c)
    IN  map_elements(h, ms,
            [v \in attributes(h, ms) |->
                [v EXCEPT !.id =
                    Replace(v.id, r.identifier_original \o Underscore,
                            r.identifier_novel \o Underscore)]])

(***************************************************************************)
(* change_model_metabolites_identifiers, lines 312-334: one row, on the    *)
(* ids of the species and then on the speciesReferences of the reactions.  *)
(***************************************************************************)
change_identifiers_row(h, c, r) ==
    LET t == translation_targets(r)
        ms == species_of(h, c)
        rs == references_of(h, c)
        h1 == map_elements(h, ms,
                  [v \in attributes(h, ms) |->
                      IF Contains(v.id, t.original)
                      THEN [v EXCEPT !.id =
                                         Replace(v.id, t.original, t.novel)]
                      ELSE v])
    IN  map_elements(h1, rs,
            [v \in attributes(h1, rs) |->
                IF Contains(v.species, t.original)
                THEN [v EXCEPT !.species =
                                   Replace(v.species, t.original, t.novel)]
                ELSE v])

(***************************************************************************)
(* changeModelMetabolitesIdentifiers of curate_recon-2-m-2_metanetx.py,    *)
(* lines 231-235: the targets of a row.                                    *)
(***************************************************************************)
curate_targets(r) ==
    [original |-> Underscore \o r.identifier_original \o Underscore,
     novel |-> Underscore \o r.identifier_novel \o Underscore]

(***************************************************************************)
(* The same function, lines 229-245: the loop over the rows, each on the   *)
(* ids of the species.                                                     *)
(***************************************************************************)
RECURSIVE curate_species(_, _, _)
curate_species(h, c, table) ==
    IF table = <<>> THEN h
    ELSE curate_species(
             map_elements(h, species_of(h, c),
                 [v \in attributes(h, species_of(h, c)) |->
                     [v EXCEPT !.id =
                         Replace(v.id, curate_targets(Head(table)).original,
                                 curate_targets(Head(table)).novel)]]),
             c, Tail(table))

(***************************************************************************)
(* The same function, lines 229-263, for a table with a row: the loop over *)
(* the reactions comes after the loop over the rows, with the targets that *)
(* the last row left.                                                      *)
(***************************************************************************)
changeModelMetabolitesIdentifiers(h, c, table) ==
    map_elements(curate_species(h, c, table), references_of(h, c),
        [v \in attributes(curate_species(h, c, table),
                          references_of(h, c)) |->
            [v EXCEPT !.species =
                Replace(v.species, curate_targets(table[Len(table)]).original,
                        curate_targets(table[Len(table)]).novel)]])

(***************************************************************************)
(* Inputs of the reconciliation.                                           *)
(***************************************************************************)
MaxTranslations == 2

\* species of the description before any stage
SpeciesPool ==
    <<Species(<<"M", "_", "1", "_", "c">>, "c"),
      Species(<<"M", "_", "M", "_", "2", "_", "c">>, "c"),
      Species(<<"M", "_", "1", "0", "_", "c">>, "c"),
      Species(<<"M", "_", "1", "_", "e", "_">> \o BoundaryWord, "e"),
      Species(<<"M", "_", "1", "_", "c", "_">> \o BoundaryWord, "c"),
      Species(<<"M", "_">> \o BoundaryWord \o <<"_", "c">>, "c")>>

\* the species of a tree, as positions of the pool: the pairs of the first
\* four species, the two boundary species that differ by their letter, and
\* a species with the id that holds the word without the pattern
SpeciesPairs ==
    {p \in [1..2 -> 1..4] : p[1] < p[2]} \cup {<<4, 5>>, <<1, 6>>}

CompartmentPool ==
    {<<[id |-> "c", name |-> "c"], [id |-> "e", name |-> "e"]>>,
     <<[id |-> "c", name |-> "c"], [id |-> "e", name |-> "e"],
       [id |-> "b", name |-> "b"]>>}

\* identifiers that a row of the translation table can name
TranslationIds == {<<"1">>, <<"2">>, <<"3">>}

\* a row that names the same identifier twice replaces a target by itself
TranslationRows ==
    {r \in [identifier_original : TranslationIds,
            identifier_novel : TranslationIds] :
        r.identifier_original # r.identifier_novel}

SourceContent == Addr(0, "content", "", 0)

\* two species with different ids, and one reaction whose speciesReferences
\* name species of the description
SourceTrees ==
    {TreeHeap(cs, <<SpeciesPool[p[1]], SpeciesPool[p[2]]>>,
              <<<<SpeciesPool[p[r[1]]].id, SpeciesPool[p[r[2]]].id>>>>) :
        <<cs, p, r>> \in
            CompartmentPool
            \X SpeciesPairs
            \X {<<1, 2>>, <<2, 2>>}}

InitTree ==
    /\ heap \in SourceTrees
    /\ fresh = 1
    /\ row = 0
    /\ pc = "main"
    /\ pass = 0
    /\ before = <<>>
    /\ prior = <<>>
    /\ first = <<>>
    /\ error = "none"
    /\ content = Null
    /\ product = Null
    /\ earlier = Null
    /\ metabolites_identifiers = <<>>
    /\ removal_metabolites = <<>>
    /\ removal_reactions = <<>>
    /\ metabolites_original = Null
    /\ reactions_original = Null
    /\ metabolites_novel = Null
    /\ reactions_novel = Null
    /\ terms = <<>>
    /\ equation = <<>>
    /\ participants = <<>>
    /\ reversibility = FALSE
    /\ run_idle
    /\ reference_idle

\* the references that a stage takes into its copy of the content at c
reference_of(c) == copy_interpret_content_recon2m2(heap, c, fresh)

\* a stage without a table returns its changed copy of the content at c
stage(c, changed, position) ==
    /\ heap' = changed
    /\ fresh' = fresh + 1
    /\ content' = c
    /\ product' = reference_of(c).content
    /\ before' = tree_value(heap, c)
    /\ pc' = position
    /\ UNCHANGED <<row, pass, prior, first, error,
                   metabolites_identifiers, refine_only, parse_only>>

\* main, line 378
MainCompartment ==
    /\ pc = "main"
    /\ stage(SourceContent,
             change_model_compartment(reference_of(SourceContent).heap,
                 reference_of(SourceContent).content),
             "compartment")
    /\ UNCHANGED earlier

\* main, line 379
MainBoundary ==
    /\ pc = "compartment"
    /\ stage(product,
             change_model_boundary(reference_of(product).heap,
                 reference_of(product).content),
             "boundary")
    /\ UNCHANGED earlier

\* main, line 380
MainPrefix ==
    /\ pc = "boundary"
    /\ stage(product,
             remove_model_identifier_prefix(reference_of(product).heap,
                 reference_of(product).content),
             "prefix")
    /\ UNCHANGED earlier

\* change_model_compartment once more on the tree it was given
RepeatCompartment ==
    /\ pc = "compartment"
    /\ stage(content,
             change_model_compartment(reference_of(content).heap,
                 reference_of(content).content),
             "repeated")
    /\ earlier' = product

\* change_model_boundary once more on the tree it was given
RepeatBoundary ==
    /\ pc = "boundary"
    /\ stage(content,
             change_model_boundary(reference_of(content).heap,
                 reference_of(content).content),
             "repeated")
    /\ earlier' = product

\* remove_model_identifier_prefix once more on the tree it was given
RepeatPrefix ==
    /\ pc = "prefix"
    /\ stage(content,
             remove_model_identifier_prefix(reference_of(content).heap,
                 reference_of(content).content),
             "repeated")
    /\ earlier' = product

\* remove_model_identifier_prefix once more, on the tree it returned
AgainPrefix ==
    /\ pc = "prefix"
    /\ stage(product,
             remove_model_identifier_prefix(reference_of(product).heap,
                 reference_of(product).content),
             "stripped")
    /\ UNCHANGED earlier

\* main of curate_recon-2-m-2_metanetx.py, lines 297-300, on the tree that
\* the boundary stage returned; without a row the loop over the reactions
\* reads original_target before any assignment
CurateIdentifiers ==
    /\ pc = "boundary"
    /\ \E table \in SeqsUpTo(TranslationRows, MaxTranslations) :
          /\ metabolites_identifiers' = table
          /\ IF table = <<>>
             THEN /\ heap' = reference_of(product).heap
                  /\ pc' = "raised"
                  /\ error' = "UnboundLocalError"
             ELSE /\ heap' = changeModelMetabolitesIdentifiers(
                                 reference_of(product).heap,
                                 reference_of(product).content, table)
                  /\ pc' = "curated"
                  /\ UNCHANGED error
    /\ fresh' = fresh + 1
    /\ content' = product
    /\ product' = reference_of(product).content
    /\ before' = tree_value(heap, product)
    /\ UNCHANGED <<row, pass, prior, first, earlier, refine_only,
                   parse_only>>

\* change_model_metabolites_identifiers, line 303: the call copies the tree
change_identifiers_call(c, table) ==
    LET reference == copy_interpret_content_recon2m2(heap, c, fresh)
    IN  /\ heap' = reference.heap
        /\ fresh' = fresh + 1
        /\ content' = c
        /\ product' = reference.content
        /\ metabolites_identifiers' = table
        /\ before' = tree_value(heap, c)
        /\ prior' = tree_value(heap, c)
        /\ row' = 1
        /\ pc' = "identifiers"
        /\ UNCHANGED <<first, error, refine_only, parse_only>>

\* main, lines 381-384
MainIdentifiers ==
    /\ pc = "prefix"
    /\ \E table \in SeqsUpTo(TranslationRows, MaxTranslations) :
          change_identifiers_call(product, table)
    /\ pass' = 1
    /\ UNCHANGED earlier

\* a second application of the same table, on the result of the first
AgainIdentifiers ==
    /\ pc = "identified"
    /\ pass = 1
    /\ earlier = Null
    /\ change_identifiers_call(product, metabolites_identifiers)
    /\ pass' = 2
    /\ UNCHANGED earlier

\* change_model_metabolites_identifiers once more on the tree it was given
RepeatIdentifiers ==
    /\ pc = "identified"
    /\ pass = 1
    /\ earlier = Null
    /\ change_identifiers_call(content, metabolites_identifiers)
    /\ earlier' = product
    /\ UNCHANGED pass

\* the rows of the table from the last to the first
IdentifiersRowBackwards ==
    /\ pc = "identifiers"
    /\ row <= Len(metabolites_identifiers)
    /\ heap' = change_identifiers_row(heap, product,
                     metabolites_identifiers[
                         Len(metabolites_identifiers) + 1 - row])
    /\ prior' = tree_value(heap, product)
    /\ row' = row + 1
    /\ UNCHANGED <<fresh, pc, pass, before, first, error, tree_only,
                   refine_only, parse_only>>

\* change_model_metabolites_identifiers, lines 305-334: one row
IdentifiersRow ==
    /\ pc = "identifiers"
    /\ row <= Len(metabolites_identifiers)
    /\ heap' = change_identifiers_row(heap, product,
                                      metabolites_identifiers[row])
    /\ prior' = tree_value(heap, product)
    /\ row' = row + 1
    /\ UNCHANGED <<fresh, pc, pass, before, first, error, tree_only,
                   refine_only, parse_only>>

\* change_model_metabolites_identifiers, line 336
IdentifiersReturn ==
    /\ pc = "identifiers"
    /\ row > Len(metabolites_identifiers)
    /\ pc' = "identified"
    /\ first' = IF pass = 1 /\ earlier = Null
                THEN tree_value(heap, product) ELSE first
    /\ UNCHANGED <<heap, fresh, row, pass, before, prior, error, tree_only,
                   refine_only, parse_only>>

NextTree ==
    \/ MainCompartment
    \/ MainBoundary
    \/ MainPrefix
    \/ MainIdentifiers
    \/ IdentifiersRow
    \/ IdentifiersReturn
    \/ AgainIdentifiers
    \/ RepeatCompartment
    \/ RepeatBoundary
    \/ RepeatPrefix
    \/ RepeatIdentifiers
    \/ AgainPrefix
    \/ CurateIdentifiers

SpecTree == InitTree /\ [][NextTree]_vars

(***************************************************************************)
(* The equation parser of extraction.py.  A function that can raise        *)
(* returns a record with the exception, or "none", and the value.          *)
(***************************************************************************)
Returns(v) == [error |-> "none", value |-> v]
Raises(e) == [error |-> e, value |-> <<>>]

\* the position of the first occurrence of sep in s from i on, or 0
RECURSIVE FindFrom(_, _, _)
FindFrom(s, sep, i) ==
    IF i + Len(sep) - 1 > Len(s) THEN 0
    ELSE IF OccursAt(s, sep, i) THEN i
    ELSE FindFrom(s, sep, i + 1)

\* s.split(sep) for a non-empty sep
RECURSIVE Split(_, _)
Split(s, sep) ==
    LET i == FindFrom(s, sep, 1)
    IN  IF i = 0 THEN <<s>>
        ELSE <<SubSeq(s, 1, i - 1)>> \o Split(Tail_(s, i + Len(sep)), sep)

Bidirectional == <<"<", "=", "=", ">">>
Forward == <<"-", "-", ">">>
Reverse == <<"<", "-", "-">>
Spaced(t) == <<" ">> \o t \o <<" ">>
Plus == <<" ", "+", " ">>

Digits == {"0", "1", "2", "3", "4", "5", "6", "7", "8", "9"}
DigitValue == [c \in Digits |->
                  CASE c = "0" -> 0 [] c = "1" -> 1 [] c = "2" -> 2
                    [] c = "3" -> 3 [] c = "4" -> 4 [] c = "5" -> 5
                    [] c = "6" -> 6 [] c = "7" -> 7 [] c = "8" -> 8
                    [] OTHER -> 9]

RECURSIVE Natural(_)
Natural(t) ==
    IF t = <<>> THEN 0
    ELSE 10 * Natural(SubSeq(t, 1, Len(t) - 1)) + DigitValue[t[Len(t)]]

AllDigits(t) == t # <<>> /\ \A i \in DOMAIN t : t[i] \in Digits

(***************************************************************************)
(* float(text) for the decimal numerals of the equations: digits, or       *)
(* digits "." digit.  The value is counted in tenths.  Any other text of   *)
(* the inputs of this model is no number: ValueError.                      *)
(***************************************************************************)
float(t) ==
    LET parts == Split(t, <<".">>)
    IN  IF Len(parts) = 1 /\ AllDigits(parts[1])
        THEN Returns(10 * Natural(parts[1]))
        ELSE IF /\ Len(parts) = 2
                /\ AllDigits(parts[1])
                /\ AllDigits(parts[2])
                /\ Len(parts[2]) = 1
             THEN Returns(10 * Natural(parts[1]) + Natural(parts[2]))
             ELSE Raises("ValueError")

\* a test that takes every token with "<" for the bidirectional token
extract_reaction_reversibility_any_left_angle(eq) == Contains(eq, <<"<">>)

(***************************************************************************)
(* extract_reaction_reversibility, lines 421-424.                          *)
(***************************************************************************)
extract_reaction_reversibility(eq) == Contains(eq, Bidirectional)

\* a split that takes the left side for the reactants whatever the token
extract_reaction_equation_raw_participants_left_first(eq) ==
    LET Sides(token) ==
            LET equation_sides == Split(eq, Spaced(token))
            IN  IF Len(equation_sides) < 2 THEN Raises("IndexError")
                ELSE Returns(
                        [reactants |-> Split(equation_sides[1], Plus),
                         products |-> Split(equation_sides[2], Plus)])
    IN  IF Contains(eq, Bidirectional) THEN Sides(Bidirectional)
        ELSE IF Contains(eq, Forward) THEN Sides(Forward)
        ELSE IF Contains(eq, Reverse) THEN Sides(Reverse)
        ELSE Raises("UnboundLocalError")

(***************************************************************************)
(* extract_reaction_equation_raw_participants_by_role, lines 476-495.      *)
(***************************************************************************)
extract_reaction_equation_raw_participants_by_role(eq) ==
    LET Sides(token, reactants_index, products_index) ==
            LET equation_sides == Split(eq, Spaced(token))
            IN  IF Len(equation_sides) < 2 THEN Raises("IndexError")
                ELSE Returns(
                        [reactants |->
                            Split(equation_sides[reactants_index], Plus),
                         products |->
                            Split(equation_sides[products_index], Plus)])
    IN  IF Contains(eq, Bidirectional) THEN Sides(Bidirectional, 1, 2)
        ELSE IF Contains(eq, Forward) THEN Sides(Forward, 1, 2)
        ELSE IF Contains(eq, Reverse) THEN Sides(Reverse, 2, 1)
        ELSE Raises("UnboundLocalError")

(***************************************************************************)
(* extract_reaction_participant_by_role, lines 540-551.                    *)
(***************************************************************************)
extract_reaction_participant_by_role(participant_raw, role) ==
    LET participant_split == Split(participant_raw, <<" ">>)
        coefficient == float(participant_split[1])
    IN  IF coefficient.error # "none" THEN coefficient
        ELSE IF Len(participant_split) < 2 THEN Raises("IndexError")
        ELSE LET metabolite_compartment ==
                     Split(participant_split[2], <<"@">>)
             IN  IF Len(metabolite_compartment) < 2 THEN Raises("IndexError")
                 ELSE Returns(Participant(metabolite_compartment[1],
                                          metabolite_compartment[2],
                                          coefficient.value, role))

(***************************************************************************)
(* extract_reaction_participants_by_role, lines 515-521: the records in    *)
(* the order of the raw participants; the first exception ends the loop.   *)
(***************************************************************************)
RECURSIVE extract_reaction_participants_by_role(_, _)
extract_reaction_participants_by_role(participants_raw, role) ==
    IF participants_raw = <<>> THEN Returns(<<>>)
    ELSE LET record == extract_reaction_participant_by_role(
                           Head(participants_raw), role)
             others == extract_reaction_participants_by_role(
                           Tail(participants_raw), role)
         IN  IF record.error # "none" THEN record
             ELSE IF others.error # "none" THEN others
             ELSE Returns(<<record.value>> \o others.value)

\* a compilation that puts the products before the reactants
extract_reaction_participants_products_first(eq) ==
    LET participants_raw ==
            extract_reaction_equation_raw_participants_by_role(eq)
    IN  IF participants_raw.error # "none" THEN participants_raw
        ELSE LET reactants == extract_reaction_participants_by_role(
                                  participants_raw.value.reactants, "reactant")
                 products == extract_reaction_participants_by_role(
                                 participants_raw.value.products, "product")
             IN  IF reactants.error # "none" THEN reactants
                 ELSE IF products.error # "none" THEN products
                 ELSE Returns(products.value \o reactants.value)

(***************************************************************************)
(* extract_reaction_participants, lines 442-456.                           *)
(***************************************************************************)
extract_reaction_participants(eq) ==
    LET participants_raw ==
            extract_reaction_equation_raw_participants_by_role(eq)
    IN  IF participants_raw.error # "none" THEN participants_raw
        ELSE LET reactants == extract_reaction_participants_by_role(
                                  participants_raw.value.reactants, "reactant")
                 products == extract_reaction_participants_by_role(
                                 participants_raw.value.products, "product")
             IN  IF reactants.error # "none" THEN reactants
                 ELSE IF products.error # "none" THEN products
                 ELSE Returns(reactants.value \o products.value)

(***************************************************************************)
(* Inputs of the extraction: equations written from terms.                 *)
(***************************************************************************)
MaxTerms == 2

\* a term of an equation; without a coefficient the text is the empty text
Term(k, m, c) == [coefficient |-> k, metabolite |-> m, compartment |-> c]

TermPool ==
    {Term(<<"2">>, <<"A">>, <<"c">>),
     Term(<<"1">>, <<"B">>, <<"c">>),
     Term(<<"0", ".", "5">>, <<"C">>, <<"e">>),
     Term(<<>>, <<"B">>, <<"c">>)}

Tokens == {Bidirectional, Forward, Reverse}

\* the text of a term: coefficient, space, metabolite, @, compartment
TermText(t) ==
    (IF t.coefficient = <<>> THEN <<>> ELSE t.coefficient \o <<" ">>)
        \o t.metabolite \o <<"@">> \o t.compartment

RECURSIVE SideText(_)
SideText(ts) ==
    IF Len(ts) = 1 THEN TermText(ts[1])
    ELSE TermText(ts[1]) \o Plus \o SideText(Tail(ts))

EquationText(e) == SideText(e.left) \o Spaced(e.token) \o SideText(e.right)

Sides == UNION {[1..n -> TermPool] : n \in 1..MaxTerms}

InitParse ==
    /\ terms \in [left : Sides, token : Tokens, right : Sides]
    /\ equation = EquationText(terms)
    /\ participants = <<>>
    /\ reversibility = FALSE
    /\ run_idle
    /\ reference_idle
    /\ pc = "main"
    /\ heap = <<>>
    /\ fresh = 0
    /\ row = 0
    /\ pass = 0
    /\ before = <<>>
    /\ prior = <<>>
    /\ first = <<>>
    /\ error = "none"
    /\ content = Null
    /\ product = Null
    /\ earlier = Null
    /\ metabolites_identifiers = <<>>
    /\ removal_metabolites = <<>>
    /\ removal_reactions = <<>>
    /\ metabolites_original = Null
    /\ reactions_original = Null
    /\ metabolites_novel = Null
    /\ reactions_novel = Null

\* extract_reaction, lines 383-384
ExtractParticipants ==
    /\ pc = "main"
    /\ reversibility' = extract_reaction_reversibility(equation)
    /\ LET result == extract_reaction_participants(equation)
       IN  /\ participants' = result.value
           /\ error' = result.error
           /\ pc' = IF result.error = "none" THEN "extracted" ELSE "raised"
    /\ UNCHANGED <<heap, fresh, row, pass, before, prior, first, terms,
                   equation, refine_only, tree_only, run_only, reference_only>>

NextParse == ExtractParticipants

SpecParse == InitParse /\ [][NextParse]_vars

(***************************************************************************)
(* The references of extraction.py.  The keys are the literals of the      *)
(* calls of extract_reference_information.                                 *)
(***************************************************************************)
Chebi == <<"c", "h", "e", "b", "i", ":">>
Bigg == <<"b", "i", "g", "g", ":">>
Deprecated == <<"d", "e", "p", "r", "e", "c", "a", "t", "e", "d", ":">>
Envipath == <<"e", "n", "v", "i", "p", "a", "t", "h", ":">>
Hmdb == <<"h", "m", "d", "b", ":">>
Kegg == <<"k", "e", "g", "g", ":">>
Lipidmaps == <<"l", "i", "p", "i", "d", "m", "a", "p", "s", ":">>
Metacyc == <<"m", "e", "t", "a", "c", "y", "c", ":">>
Reactome == <<"r", "e", "a", "c", "t", "o", "m", "e", ":">>
Sabiork == <<"s", "a", "b", "i", "o", "r", "k", ":">>
Seed == <<"s", "e", "e", "d", ":">>
Slm == <<"s", "l", "m", ":">>
Rhea == <<"r", "h", "e", "a", ":">>
Model == <<"m", "o", "d", "e", "l", ":">>

\* the substrings that begin with the key, with the key removed
extract_reference_information_anchored(key, source_reference) ==
    LET references == Split(source_reference, <<";">>)
        pairs == SelectSeq(references, LAMBDA pair : OccursAt(pair, key, 1))
    IN  [i \in DOMAIN pairs |-> Replace(pairs[i], key, <<>>)]

(***************************************************************************)
(* extract_reference_information, lines 329-335.                           *)
(***************************************************************************)
extract_reference_information(key, source_reference) ==
    LET references == Split(source_reference, <<";">>)
        pairs == SelectSeq(references, LAMBDA pair : Contains(pair, key))
    IN  [i \in DOMAIN pairs |-> Replace(pairs[i], key, <<>>)]

\* references without the identifier of the metabolite itself
extract_metabolite_reference_prior_only(identifier, source_reference) ==
    LET information(key) ==
            extract_reference_information(key, source_reference)
    IN  [chebi |-> information(Chebi),
         bigg |-> information(Bigg),
         metanetx |-> information(Deprecated),
         envipath |-> information(Envipath),
         hmdb |-> information(Hmdb),
         kegg |-> information(Kegg),
         lipidmaps |-> information(Lipidmaps),
         metacyc |-> information(Metacyc),
         reactome |-> information(Reactome),
         sabiork |-> information(Sabiork),
         seed |-> information(Seed),
         slm |-> information(Slm)]

(***************************************************************************)
(* extract_metabolite_reference, lines 258-310.                            *)
(***************************************************************************)
extract_metabolite_reference(identifier, source_reference) ==
    LET information(key) ==
            extract_reference_information(key, source_reference)
        metanetx_prior == information(Deprecated)
    IN  [chebi |-> information(Chebi),
         bigg |-> information(Bigg),
         metanetx |-> <<identifier>> \o metanetx_prior,
         envipath |-> information(Envipath),
         hmdb |-> information(Hmdb),
         kegg |-> information(Kegg),
         lipidmaps |-> information(Lipidmaps),
         metacyc |-> information(Metacyc),
         reactome |-> information(Reactome),
         sabiork |-> information(Sabiork),
         seed |-> information(Seed),
         slm |-> information(Slm)]

(***************************************************************************)
(* extract_metabolite, lines 222-239.                                      *)
(***************************************************************************)
extract_metabolite(source) ==
    [identifier |-> source.identifier,
     name |-> source.name,
     formula |-> source.formula,
     mass |-> source.mass,
     charge |-> source.charge,
     reference |-> extract_metabolite_reference(source.identifier,
                                                source.reference)]

(***************************************************************************)
(* Inputs of the references: the reference of a metabolite is written from *)
(* entries, each a key and an identifier, and possibly text before the key.*)
(***************************************************************************)
MaxEntries == 3

Entry(text_before, key, identifier) ==
    [before |-> text_before, key |-> key, identifier |-> identifier]

EntryPool ==
    {Entry(<<>>, Chebi, <<"1">>),
     Entry(<<"x">>, Chebi, <<"2">>),
     Entry(<<>>, Kegg, <<"C", "1">>),
     Entry(<<>>, Deprecated, <<"M", "8">>),
     Entry(<<>>, Deprecated, <<"M", "9">>)}

EntryText(e) == e.before \o e.key \o e.identifier

\* ";".join of the texts of the entries
RECURSIVE ReferenceText(_)
ReferenceText(es) ==
    IF es = <<>> THEN <<>>
    ELSE IF Len(es) = 1 THEN EntryText(es[1])
    ELSE EntryText(es[1]) \o <<";">> \o ReferenceText(Tail(es))

MetaboliteIdentifiers == {<<"M", "1">>, <<"M", "8">>}

\* the keys that a call of extract_reference_information is checked with
RequestedKeys == {Chebi, Deprecated, Kegg, Hmdb}

InitReference ==
    /\ entries \in SeqsUpTo(EntryPool, MaxEntries)
    /\ \E identifier \in MetaboliteIdentifiers :
          source_metabolite =
              [identifier |-> identifier, name |-> "name",
               formula |-> "formula", mass |-> "mass", charge |-> "charge",
               reference |-> ReferenceText(entries)]
    /\ metabolite = <<>>
    /\ reference_key = <<>>
    /\ identifiers = <<>>
    /\ pc = "main"
    /\ heap = <<>>
    /\ fresh = 0
    /\ row = 0
    /\ pass = 0
    /\ before = <<>>
    /\ prior = <<>>
    /\ first = <<>>
    /\ error = "none"
    /\ content = Null
    /\ product = Null
    /\ earlier = Null
    /\ metabolites_identifiers = <<>>
    /\ removal_metabolites = <<>>
    /\ removal_reactions = <<>>
    /\ metabolites_original = Null
    /\ reactions_original = Null
    /\ metabolites_novel = Null
    /\ reactions_novel = Null
    /\ terms = <<>>
    /\ equation = <<>>
    /\ participants = <<>>
    /\ reversibility = FALSE
    /\ run_idle

\* extract_metabolites, line 203: the record of one row
ExtractMetabolite ==
    /\ pc = "main"
    /\ metabolite' = extract_metabolite(source_metabolite)
    /\ pc' = "extracted"
    /\ UNCHANGED <<heap, fresh, row, pass, before, prior, first, error,
                   refine_only, tree_only, terms, equation, participants,
                   reversibility, run_only, source_metabolite, entries,
                   reference_key, identifiers>>

\* a call of extract_reference_information on the reference of the row
ExtractReferenceInformation ==
    /\ pc = "main"
    /\ \E key \in RequestedKeys :
          /\ reference_key' = key
          /\ identifiers' =
                 extract_reference_information(key,
                                               source_metabolite.reference)
    /\ pc' = "referenced"
    /\ UNCHANGED <<heap, fresh, row, pass, before, prior, first, error,
                   refine_only, tree_only, terms, equation, participants,
                   reversibility, run_only, source_metabolite, entries,
                   metabolite>>

NextReference ==
    \/ ExtractMetabolite
    \/ ExtractReferenceInformation

SpecReference == InitReference /\ [][NextReference]_vars

(***************************************************************************)
(* extract_reactions of extraction.py.  A dictionary is a function from    *)
(* its keys; None is a record that no table holds.                         *)
(***************************************************************************)
None == [none |-> TRUE]

\* dictionary[k] = v
store(dictionary, k, v) ==
    [j \in DOMAIN dictionary \cup {k} |-> IF j = k THEN v ELSE dictionary[j]]

(***************************************************************************)
(* utility.find, lines 166-169; match is a function over the elements.     *)
(***************************************************************************)
RECURSIVE find(_, _)
find(match, sequence) ==
    IF sequence = <<>> THEN None
    ELSE IF match[Head(sequence)] THEN Head(sequence)
    ELSE find(match, Tail(sequence))

(***************************************************************************)
(* extract_reaction_processes, lines 569-572.                              *)
(***************************************************************************)
extract_reaction_processes(source_process) ==
    extract_reference_information(Model, source_process)

(***************************************************************************)
(* extract_reaction_genes, lines 589-591: None["genes"] is a TypeError.    *)
(***************************************************************************)
extract_reaction_genes(source_gene) ==
    IF source_gene = None THEN Raises("TypeError")
    ELSE Returns(Split(source_gene.genes, <<";">>))

(***************************************************************************)
(* extract_reaction_reference, lines 616-653.                              *)
(***************************************************************************)
extract_reaction_reference(recon2m2, metanetx, enzyme_commission, source_reference) ==
    LET information(key) ==
            extract_reference_information(key, source_reference)
        metanetx_prior == information(Deprecated)
        metanetx_current == <<metanetx>> \o metanetx_prior
    IN  [recon2m2 |-> recon2m2,
         rhea |-> information(Rhea),
         bigg |-> information(Bigg),
         metanetx |-> metanetx_current,
         enzyme_commission |-> Split(enzyme_commission, <<";">>),
         kegg |-> information(Kegg),
         metacyc |-> information(Metacyc),
         reactome |-> information(Reactome),
         sabiork |-> information(Sabiork),
         seed |-> information(Seed)]

(***************************************************************************)
(* extract_reaction, lines 383-404, with what the calls of lines 384 and   *)
(* 394 returned or raised: the first exception ends the call.              *)
(***************************************************************************)
compile_reaction(source_reaction, extraction, genes) ==
        IF extraction.error # "none" THEN extraction
        ELSE IF genes.error # "none" THEN genes
        ELSE Returns(
                [identifier |-> source_reaction.identifier,
                 equation |-> source_reaction.equation,
                 reversibility |->
                     extract_reaction_reversibility(source_reaction.equation),
                 participants |-> extraction.value,
                 processes |->
                     extract_reaction_processes(source_reaction.process),
                 genes |-> genes.value,
                 reference |->
                     extract_reaction_reference(
                         source_reaction.recon2m2, source_reaction.metanetx,
                         source_reaction.enzyme_commission,
                         source_reaction.reference)])

(***************************************************************************)
(* extract_reaction, lines 381-404.                                        *)
(***************************************************************************)
extract_reaction(source_reaction, source_gene) ==
    compile_reaction(source_reaction,
                     extract_reaction_participants(source_reaction.equation),
                     extract_reaction_genes(source_gene))

(***************************************************************************)
(* Inputs of extract_reactions: a table of reactions with different        *)
(* identifiers, and a table of genes with a record for some of them.       *)
(***************************************************************************)
MaxReactions == 2

\* the identifier of the reaction of each row of the table
SourceReactionIdentifiers == <<"MNXR1", "MNXR2", "MNXR3">>

\* two equations that the parser accepts, one without a token, one with a
\* term without "@", and one with a coefficient that is no number
EquationPool ==
    {<<"1", " ", "A", "@", "c">> \o Spaced(Forward)
         \o <<"1", " ", "B", "@", "c">>,
     <<"2", " ", "A", "@", "c">> \o Spaced(Bidirectional)
         \o <<"1", " ", "B", "@", "c">>,
     <<"1", " ", "A", "@", "c">> \o Spaced(<<"=">>)
         \o <<"1", " ", "B", "@", "c">>,
     <<"1", " ", "A", "@", "c">> \o Spaced(Forward)
         \o <<"1", " ", "B", "c">>,
     <<"x", " ", "A", "@", "c">> \o Spaced(Forward)
         \o <<"1", " ", "B", "@", "c">>}

SourceReaction(i, eq) ==
    [identifier |-> SourceReactionIdentifiers[i],
     equation |-> eq,
     process |-> Model \o <<"p">>,
     recon2m2 |-> <<"r">>,
     metanetx |-> <<"R", "1">>,
     enzyme_commission |-> <<"1", ";", "2">>,
     reference |-> Rhea \o <<"7">>]

SourceGene(i) ==
    [reaction |-> SourceReactionIdentifiers[i],
     genes |-> <<"g", "1", ";", "g", "2">>]

\* the rows of the indices of S, in the order of the indices up to n
RECURSIVE GenesOf(_, _)
GenesOf(S, n) ==
    IF n = 0 THEN <<>>
    ELSE GenesOf(S, n - 1) \o (IF n \in S THEN <<SourceGene(n)>> ELSE <<>>)

InitExtract ==
    /\ \E n \in 1..MaxReactions :
          /\ \E eqs \in [1..n -> EquationPool] :
                source_reactions = [i \in 1..n |-> SourceReaction(i, eqs[i])]
          /\ \E S \in SUBSET (1..n) : source_genes = GenesOf(S, n)
    /\ reactions = <<>>
    /\ pc = "main"
    /\ row = 0
    /\ error = "none"
    /\ heap = <<>>
    /\ fresh = 0
    /\ pass = 0
    /\ before = <<>>
    /\ prior = <<>>
    /\ first = <<>>
    /\ content = Null
    /\ product = Null
    /\ earlier = Null
    /\ metabolites_identifiers = <<>>
    /\ removal_metabolites = <<>>
    /\ removal_reactions = <<>>
    /\ metabolites_original = Null
    /\ reactions_original = Null
    /\ metabolites_novel = Null
    /\ reactions_novel = Null
    /\ terms = <<>>
    /\ equation = <<>>
    /\ participants = <<>>
    /\ reversibility = FALSE
    /\ reference_idle

\* main, lines 701-703, and extract_reactions, line 353
MainExtractReactions ==
    /\ pc = "main"
    /\ pc' = "extract_reactions"
    /\ reactions' = <<>>
    /\ row' = 1
    /\ UNCHANGED <<heap, fresh, pass, before, prior, first, error,
                   refine_only, tree_only, terms, equation, participants,
                   reversibility, source_reactions, source_genes,
                   reference_only>>

\* extract_reactions, lines 354-361: one reaction; an exception of
\* extract_reaction leaves the loop and the function
ExtractReactionsRow ==
    /\ pc = "extract_reactions"
    /\ row <= Len(source_reactions)
    /\ LET source_reaction == source_reactions[row]
           match_reaction_gene ==
               [gene_record \in Range(source_genes) |->
                   gene_record.reaction = source_reaction.identifier]
           source_gene == find(match_reaction_gene, source_genes)
       IN  \E record \in {extract_reaction(source_reaction, source_gene)} :
              IF record.error = "none"
              THEN /\ reactions' = store(reactions, record.value.identifier,
                                         record.value)
                   /\ row' = row + 1
                   /\ UNCHANGED <<pc, error>>
              ELSE /\ pc' = "raised"
                   /\ error' = record.error
                   /\ UNCHANGED <<reactions, row>>
    /\ UNCHANGED <<heap, fresh, pass, before, prior, first, refine_only,
                   tree_only, terms, equation, participants, reversibility,
                   source_reactions, source_genes, reference_only>>

\* extract_reactions, line 362
ExtractReactionsReturn ==
    /\ pc = "extract_reactions"
    /\ row > Len(source_reactions)
    /\ pc' = "extracted"
    /\ UNCHANGED <<heap, fresh, row, pass, before, prior, first, error,
                   refine_only, tree_only, parse_only>>

NextExtract ==
    \/ MainExtractReactions
    \/ ExtractReactionsRow
    \/ ExtractReactionsReturn

SpecExtract == InitExtract /\ [][NextExtract]_vars

(***************************************************************************)
(* Properties of the refinement.                                           *)
(***************************************************************************)
\* the values of the working copies of the running or finished call
Novel == novel_value(heap, metabolites_novel, reactions_novel)

\* some participant references a metabolite that the dictionary lacks
Dangling(v) ==
    \E r \in DOMAIN v.reactions :
        \E i \in DOMAIN v.reactions[r].participants :
            v.reactions[r].participants[i].metabolite
                \notin DOMAIN v.metabolites

\* the row that the loop of remove_metabolites processed last
LastRow == removal_metabolites[row - 1]

\* C1: when every participant of the model given to remove_metabolites
\* references a key of the metabolites dictionary, every participant of the
\* returned reactions references a key of the returned dictionary.
C1_ReturnedParticipantsExist ==
    (pc = "removed_metabolites" /\ pass = 1 /\ ~Dangling(before))
        => ~Dangling(Novel)

\* C2: no row's removal_identifier is a key of the metabolites dictionary
\* that remove_metabolites returns, whatever the other rows are.
C2_RemovalsAbsent ==
    pc = "removed_metabolites"
        => \A i \in DOMAIN removal_metabolites :
              removal_metabolites[i].removal_identifier
                  \notin DOMAIN Novel.metabolites

\* a removal happened, and a later row names the removed metabolite as its
\* replacement
C2_Witness ==
    /\ pc = "removed_metabolites"
    /\ pass = 1
    /\ Len(removal_metabolites) = 2
    /\ removal_metabolites[1].removal_identifier
           \in DOMAIN before.metabolites
    /\ removal_metabolites[2].replacement_identifier
           = removal_metabolites[1].removal_identifier
    /\ removal_metabolites[2].removal_identifier
           # removal_metabolites[1].removal_identifier

\* C3: a batch that leaves a participant referencing a metabolite absent
\* from the metabolites dictionary ends in a DanglingReferenceError, and
\* does not return.
C3_DanglingRaises ==
    (/\ pc \in {"removed_metabolites", "raised"}
     /\ pass = 1
     /\ Dangling(Novel))
        => (pc = "raised" /\ error = "DanglingReferenceError")

\* C4: right after a row, every participant that referenced the row's
\* removal_identifier before the row references its replacement_identifier,
\* in every reaction.
C4_RowRewritesEveryReaction ==
    (pc = "remove_metabolites" /\ row > 1)
        => \A r \in DOMAIN prior.reactions :
              \A i \in DOMAIN prior.reactions[r].participants :
                  prior.reactions[r].participants[i].metabolite
                          = LastRow.removal_identifier
                      => Novel.reactions[r].participants[i].metabolite
                          = LastRow.replacement_identifier

\* the second row rewrites a participant of a reaction that the first row
\* left alone, while the first row changed the other reaction
C4_Witness ==
    /\ pc = "remove_metabolites"
    /\ pass = 1
    /\ row = 3
    /\ prior.reactions["MNXR2"] = before.reactions["MNXR2"]
    /\ prior.reactions["MNXR1"] # before.reactions["MNXR1"]
    /\ prior.reactions["MNXR2"].participants[1].metabolite
           = LastRow.removal_identifier
    /\ LastRow.replacement_identifier # LastRow.removal_identifier

\* C5: a row whose removal_identifier is not a key of the current
\* metabolites dictionary raises nothing and leaves the dictionary as it
\* was, and the loop goes on to the rows after it: the call returns only
\* after the last row.
C5_AbsentRemovalIsNoError ==
    /\ (/\ pc \in {"remove_metabolites", "raised"}
        /\ row > 1
        /\ LastRow.removal_identifier \notin DOMAIN prior.metabolites)
           => /\ error = "none"
              /\ pc = "remove_metabolites"
              /\ Novel.metabolites = prior.metabolites
    /\ pc = "removed_metabolites" => row = Len(removal_metabolites) + 1

\* the first row names a metabolite that the model lacks, and the second
\* row has removed a metabolite of the model
C5_Witness ==
    /\ pc = "removed_metabolites"
    /\ pass = 1
    /\ Len(removal_metabolites) = 2
    /\ removal_metabolites[1].removal_identifier
           \notin DOMAIN before.metabolites
    /\ removal_metabolites[2].removal_identifier
           \in DOMAIN before.metabolites
    /\ DOMAIN Novel.metabolites # DOMAIN before.metabolites

\* C6: applying the table to the result of a first application returns the
\* metabolites and the reactions of the first application.
C6_Idempotent ==
    (pc = "removed_metabolites" /\ pass = 2) => Novel = first

\* C8: remove_metabolites and remove_reactions leave their arguments as
\* they were when the call started, and no object of the working copies or
\* of the result is an object of the arguments.
C8_ArgumentsNotMutated ==
    pc \in {"remove_metabolites", "removed_metabolites", "remove_reactions",
            "removed_reactions", "raised"}
        => /\ reactions_value(heap, reactions_original) = before.reactions
           /\ Reachable(heap, reactions_original)
                  \cap Reachable(heap, reactions_novel) = {}
           /\ metabolites_original # Null
                  => /\ metabolites_value(heap, metabolites_original)
                            = before.metabolites
                     /\ Reachable(heap, metabolites_original)
                            \cap Reachable(heap, metabolites_novel) = {}

\* remove_reactions deleted a reaction from what remove_metabolites
\* returned, after remove_metabolites deleted a metabolite and rewrote a
\* participant
C8_Witness ==
    /\ pc = "removed_reactions"
    /\ DOMAIN Novel.reactions # DOMAIN before.reactions
    /\ first.reactions # reactions_value(heap, SourceReactionsAddr)
    /\ DOMAIN first.metabolites
           # DOMAIN metabolites_value(heap, SourceMetabolitesAddr)

\* the identifiers that the rows of the table of reactions name
ListedReactions ==
    {removal_reactions[i].identifier : i \in DOMAIN removal_reactions}

\* C26: remove_reactions raises nothing, and it returns the reactions that
\* it was given and that no row of the table names, each with the
\* identifier and the participants that it was given.
C26_RemainingReactionsExact ==
    /\ pc \in {"remove_reactions", "removed_reactions", "raised"}
           => (error = "none" /\ pc # "raised")
    /\ pc = "removed_reactions"
           => reactions_value(heap, reactions_novel)
                  = [r \in DOMAIN before.reactions \ ListedReactions |->
                        before.reactions[r]]

\* a row names a reaction that remove_reactions was given, and the other
\* reaction is returned
C26_Witness ==
    /\ pc = "removed_reactions"
    /\ Len(removal_reactions) = 1
    /\ ListedReactions \subseteq DOMAIN before.reactions
    /\ DOMAIN reactions_value(heap, reactions_novel)
           = DOMAIN before.reactions \ ListedReactions
    /\ DOMAIN reactions_value(heap, reactions_novel) # {}

\* C27: the step of main after the removal of reactions applies the table
\* of changes to the metabolites, and it ends without an exception or in a
\* MalformedEditTableError.
C27_FieldOverridesApplied ==
    pc = "change_metabolites"
        => error \in {"none", "MalformedEditTableError"}

\* the identifiers that the rows of the table of metabolites remove
RemovedMetabolites ==
    {removal_metabolites[i].removal_identifier :
        i \in DOMAIN removal_metabolites}

\* C30: remove_metabolites returns the reactions that it was given, each
\* with as many participants, and each participant with the compartment,
\* the coefficient and the role that it had at its position; every
\* metabolite that it returns has the record that it had, and every
\* metabolite that no row removes is returned.
C30_OnlyMembershipAndMetabolite ==
    (pc \in {"remove_metabolites", "removed_metabolites"} /\ pass = 1)
        => /\ DOMAIN Novel.reactions = DOMAIN before.reactions
           /\ \A r \in DOMAIN before.reactions :
                  /\ Novel.reactions[r].identifier
                         = before.reactions[r].identifier
                  /\ DOMAIN Novel.reactions[r].participants
                         = DOMAIN before.reactions[r].participants
                  /\ \A i \in DOMAIN before.reactions[r].participants :
                         [Novel.reactions[r].participants[i]
                              EXCEPT !.metabolite = ""]
                             = [before.reactions[r].participants[i]
                                    EXCEPT !.metabolite = ""]
           /\ \A m \in DOMAIN Novel.metabolites :
                  /\ m \in DOMAIN before.metabolites
                  /\ Novel.metabolites[m] = before.metabolites[m]
           /\ DOMAIN before.metabolites \ RemovedMetabolites
                  \subseteq DOMAIN Novel.metabolites

\* a metabolite has been removed and the participant of coefficient 2 that
\* referenced it references its replacement
C30_Witness ==
    /\ pc = "removed_metabolites"
    /\ pass = 1
    /\ DOMAIN Novel.metabolites # DOMAIN before.metabolites
    /\ Novel.reactions["MNXR1"].participants[1].metabolite
           # before.reactions["MNXR1"].participants[1].metabolite
    /\ Novel.reactions["MNXR1"].participants[1].coefficient = 2

(***************************************************************************)
(* Properties of the reconciliation.                                       *)
(***************************************************************************)
\* the species ids and the speciesReference species values of a tree
identifiers_of(v) ==
    [species |-> [i \in DOMAIN v.metabolites |-> v.metabolites[i].id],
     references |-> v.reactions]

texts_of(v) ==
    {v.metabolites[i].id : i \in DOMAIN v.metabolites}
        \cup UNION {Range(v.reactions[i]) : i \in DOMAIN v.reactions}

\* no id of the tree contains a row's identifier_original followed by "_"
NoOriginalLeft(v) ==
    \A k \in DOMAIN metabolites_identifiers :
        \A t \in texts_of(v) :
            ~Contains(t, metabolites_identifiers[k].identifier_original
                             \o <<"_">>)

\* the tree that the first application of the table was given, seen from
\* the second application
FirstArgument == Relocate(content, content.gen - 1)

\* C7 as stated: applying the translation table to the result of a first
\* application yields the species ids and speciesReference values of the
\* first application.
C7_Idempotent ==
    (pc = "identified" /\ pass = 2)
        => identifiers_of(tree_value(heap, product)) = identifiers_of(first)

\* C7 as amended: the second application yields the ids of the first when
\* no species id and no speciesReference value of the first result contains
\* a row's identifier_original followed by "_".
C7_IdempotentWithoutOriginals ==
    (pc = "identified" /\ pass = 2 /\ NoOriginalLeft(first))
        => identifiers_of(tree_value(heap, product)) = identifiers_of(first)

\* the first application changed an id and left no original behind, and
\* the second application has returned
C7_Witness ==
    /\ pc = "identified"
    /\ pass = 2
    /\ NoOriginalLeft(first)
    /\ identifiers_of(first)
           # identifiers_of(tree_value(heap, FirstArgument))

\* the value of the content that the stage at position g of main returned
StageValue(g) == tree_value(heap, Addr(g, "content", "", 0))

Disjoint(a, b) == Reachable(heap, a) \cap Reachable(heap, b) = {}

\* C9: a stage leaves the tree it is given as it was, no element of the
\* tree it returns is an element of the tree it was given, and a second run
\* of the stage on the same tree returns an equal tree that shares no
\* element with the first result.
C9_StagesWorkOnCopies ==
    pc \in {"compartment", "boundary", "prefix", "identifiers", "identified",
            "repeated"}
        => /\ tree_value(heap, content) = before
           /\ Disjoint(content, product)
           /\ (earlier # Null /\ pc \in {"identified", "repeated"})
                  => /\ tree_value(heap, earlier) = tree_value(heap, product)
                     /\ Disjoint(earlier, product)
                     /\ Disjoint(earlier, content)

\* every stage of main changed the tree, and the translation has run twice
\* on the tree that main gave it
C9_Witness ==
    /\ pc = "identified"
    /\ earlier # Null
    /\ tree_value(heap, product) # before
    /\ StageValue(1) # StageValue(0)
    /\ StageValue(2) # StageValue(1)
    /\ StageValue(3) # StageValue(2)

\* one of the three earlier stages has run twice on the same tree and
\* changed it
C9_WitnessRepeated ==
    /\ pc = "repeated"
    /\ tree_value(heap, product) # before

(***************************************************************************)
(* Properties of the extraction.                                           *)
(***************************************************************************)
\* every term of the equation has a coefficient
WellFormed(e) ==
    \A t \in Range(e.left) \cup Range(e.right) : t.coefficient # <<>>

\* the terms that the token makes reactants, and those it makes products
ReactantTerms(e) == IF e.token = Reverse THEN e.right ELSE e.left
ProductTerms(e) == IF e.token = Reverse THEN e.left ELSE e.right

\* metabolite, compartment and role of the participants, in order
Tagged(ps) ==
    [i \in DOMAIN ps |-> <<ps[i].metabolite, ps[i].compartment, ps[i].role>>]

TaggedTerms(ts, role) ==
    [i \in DOMAIN ts |-> <<ts[i].metabolite, ts[i].compartment, role>>]

\* C10: for a well-formed equation extract_reaction_participants returns
\* one participant per term: the terms of the reactant side in their order
\* in the text, tagged reactant, and then the terms of the product side in
\* their order in the text, tagged product.
C10_ReactantsThenProducts ==
    (pc \in {"extracted", "raised"} /\ WellFormed(terms))
        => /\ error = "none"
           /\ Tagged(participants)
                  = TaggedTerms(ReactantTerms(terms), "reactant")
                        \o TaggedTerms(ProductTerms(terms), "product")

\* an equation with two different terms on each side has been extracted
C10_Witness ==
    /\ pc = "extracted"
    /\ WellFormed(terms)
    /\ Len(terms.left) = 2
    /\ Len(terms.right) = 2
    /\ terms.left[1] # terms.left[2]
    /\ terms.right[1] # terms.right[2]
    /\ terms.left # terms.right
    /\ Len(participants) = 4

\* metabolite and compartment of the terms of one side of the equation
Labels(ts) == {<<ts[i].metabolite, ts[i].compartment>> : i \in DOMAIN ts}

\* metabolite and compartment of the participants that have the role
RoleLabels(ps, role) ==
    {<<ps[i].metabolite, ps[i].compartment>> :
        i \in {j \in DOMAIN ps : ps[j].role = role}}

\* C11: when the token of the equation is "<--", the terms right of the
\* token are returned as reactants and the terms left of it as products;
\* when the token is "-->" or "<==>", the terms left of it are returned as
\* reactants and the terms right of it as products.
C11_ReverseSwapsSides ==
    pc = "extracted"
        => IF terms.token = Reverse
           THEN /\ RoleLabels(participants, "reactant") = Labels(terms.right)
                /\ RoleLabels(participants, "product") = Labels(terms.left)
           ELSE /\ RoleLabels(participants, "reactant") = Labels(terms.left)
                /\ RoleLabels(participants, "product") = Labels(terms.right)

\* an equation with "<--" and different terms on its sides has been
\* extracted, and the terms right of the token are the reactants
C11_Witness ==
    /\ pc = "extracted"
    /\ terms.token = Reverse
    /\ Labels(terms.left) \cap Labels(terms.right) = {}
    /\ RoleLabels(participants, "reactant") = Labels(terms.right)
    /\ RoleLabels(participants, "product") = Labels(terms.left)

\* the coefficients that the terms stand for, in tenths: 1.0 for a term
\* that carries none
Coefficients(ts) ==
    [i \in DOMAIN ts |-> IF ts[i].coefficient = <<>> THEN 10
                         ELSE float(ts[i].coefficient).value]

\* C12: an equation with a term that carries no coefficient is parsed
\* without an exception, and its participants have the coefficients of the
\* terms, 1.0 for a term that carries none.
C12_OmittedCoefficientIsOne ==
    (pc \in {"extracted", "raised"} /\ ~WellFormed(terms))
        => /\ error = "none"
           /\ [i \in DOMAIN participants |-> participants[i].coefficient]
                  = Coefficients(ReactantTerms(terms))
                        \o Coefficients(ProductTerms(terms))

\* C13: the reversibility of an extracted reaction is true exactly when the
\* token of its equation is "<==>", false for "-->" and "<--", and it is
\* the condition of the first branch of the split of the equation.
C13_ReversibleIffBidirectional ==
    pc \in {"extracted", "raised"}
        => /\ reversibility = (terms.token = Bidirectional)
           /\ terms.token \in {Forward, Reverse} => ~reversibility
           /\ reversibility = Contains(equation, Bidirectional)

\* an equation with "<==>" has been extracted as reversible, with the left
\* side as reactants
C13_Witness ==
    /\ pc = "extracted"
    /\ terms.token = Bidirectional
    /\ reversibility
    /\ Labels(terms.left) # Labels(terms.right)
    /\ RoleLabels(participants, "reactant") = Labels(terms.left)

\* the entries whose text contains the key
Kept(es, key) == SelectSeq(es, LAMBDA e : Contains(EntryText(e), key))

\* the texts of the entries without their keys
WithoutKey(es) == [i \in DOMAIN es |-> es[i].before \o es[i].identifier]

\* C15: extract_reference_information(key, source) returns the substrings
\* between the semicolons of source that contain key, in their order in
\* source, each without the key; the list is empty when no substring
\* contains the key.
C15_KeptInOrderWithoutKey ==
    pc = "referenced"
        => /\ identifiers = WithoutKey(Kept(entries, reference_key))
           /\ DOMAIN identifiers = 1..Len(identifiers)
           /\ (\A i \in DOMAIN entries :
                  ~Contains(EntryText(entries[i]), reference_key))
                  => identifiers = <<>>

\* the reference has three entries, the key is in the first and the third,
\* in the third after other text, and both are returned in this order
C15_Witness ==
    /\ pc = "referenced"
    /\ Len(entries) = 3
    /\ Contains(EntryText(entries[1]), reference_key)
    /\ ~Contains(EntryText(entries[2]), reference_key)
    /\ Contains(EntryText(entries[3]), reference_key)
    /\ entries[3].before # <<>>
    /\ identifiers = <<entries[1].identifier,
                       entries[3].before \o entries[3].identifier>>

\* the entries of the key "deprecated:"
DeprecatedEntries ==
    SelectSeq(entries, LAMBDA e : e.key = Deprecated)

\* C16: the list reference["metanetx"] of an extracted metabolite begins
\* with the identifier of the metabolite, goes on with the identifiers of
\* the "deprecated:" entries of its reference in their order, and is not
\* empty.
C16_OwnIdentifierFirst ==
    pc = "extracted"
        => /\ Len(metabolite.reference.metanetx) >= 1
           /\ metabolite.reference.metanetx[1] = source_metabolite.identifier
           /\ metabolite.reference.metanetx
                  = <<source_metabolite.identifier>>
                        \o WithoutKey(DeprecatedEntries)

\* a metabolite with two different "deprecated:" entries has been extracted
C16_Witness ==
    /\ pc = "extracted"
    /\ Len(DeprecatedEntries) = 2
    /\ DeprecatedEntries[1] # DeprecatedEntries[2]
    /\ Len(entries) = 3
    /\ Len(metabolite.reference.metanetx) = 3
    /\ metabolite.identifier = source_metabolite.identifier

\* the rows of the table of reactions whose equation the parser accepts
ValidRows ==
    {i \in DOMAIN source_reactions :
        extract_reaction_participants(source_reactions[i].equation).error
            = "none"}

\* the rows of the table of reactions that have a record of genes
RowsWithGenes ==
    {i \in DOMAIN source_reactions :
        \E j \in DOMAIN source_genes :
            source_genes[j].reaction = source_reactions[i].identifier}

\* C14: a run of extract_reactions over a table in which every reaction has
\* a record of genes and some equation is malformed returns a result, and
\* the result holds exactly the reactions of the table whose equation is
\* valid.
C14_MalformedEquationIsScoped ==
    (/\ pc \in {"extracted", "raised"}
     /\ RowsWithGenes = DOMAIN source_reactions
     /\ ValidRows # DOMAIN source_reactions)
        => /\ pc = "extracted"
           /\ DOMAIN reactions
                  = {source_reactions[i].identifier : i \in ValidRows}

\* C17: a run of extract_reactions over a table in which every equation is
\* valid and some reaction has no record of genes returns a result; the
\* result holds every reaction that has a record of genes, and it holds no
\* reaction without a record of genes with an empty list of genes.
C17_MissingGeneRecordIsScoped ==
    (/\ pc \in {"extracted", "raised"}
     /\ ValidRows = DOMAIN source_reactions
     /\ RowsWithGenes # DOMAIN source_reactions)
        => /\ pc = "extracted"
           /\ \A i \in RowsWithGenes :
                  source_reactions[i].identifier \in DOMAIN reactions
           /\ \A i \in DOMAIN source_reactions \ RowsWithGenes :
                  source_reactions[i].identifier \in DOMAIN reactions
                      => reactions[source_reactions[i].identifier].genes
                             # <<>>

\* the text of the id before a last part _<letter>_boundary
BoundaryBase(id) == SubSeq(id, 1, Len(id) - (3 + Len(BoundaryWord)))

\* the id has the form <base>_<letter>_boundary
HasBoundaryForm(id) ==
    /\ Len(id) >= 3 + Len(BoundaryWord)
    /\ \E letter \in CompartmentLetters :
          id = BoundaryBase(id) \o <<"_", letter, "_">> \o BoundaryWord

\* C18: change_model_boundary returns every metabolite whose id had the
\* form <base>_<letter>_boundary with the id <base>_b and the compartment
\* "b".
C18_BoundaryRewritten ==
    pc = "boundary"
        => \A i \in DOMAIN before.metabolites :
              HasBoundaryForm(before.metabolites[i].id)
                  => /\ tree_value(heap, product).metabolites[i].id
                            = BoundaryBase(before.metabolites[i].id)
                                  \o <<"_", "b">>
                     /\ tree_value(heap, product).metabolites[i].compartment
                            = "b"

\* a metabolite of the compartment e with an id of the form has been
\* rewritten
C18_Witness ==
    /\ pc = "boundary"
    /\ \E i \in DOMAIN before.metabolites :
          /\ HasBoundaryForm(before.metabolites[i].id)
          /\ before.metabolites[i].compartment = "e"
          /\ tree_value(heap, product).metabolites[i].compartment = "b"
          /\ tree_value(heap, product).metabolites[i].id
                 # before.metabolites[i].id

\* every speciesReference of the tree names a species of the tree
ReferencesNameSpecies(v) ==
    \A i \in DOMAIN v.reactions :
        \A j \in DOMAIN v.reactions[i] :
            \E k \in DOMAIN v.metabolites :
                v.metabolites[k].id = v.reactions[i][j]

\* C19: when every speciesReference of the tree given to
\* change_model_boundary names a species of that tree, every
\* speciesReference of the tree it returns names a species of the returned
\* tree.
C19_ReferencesFollowSpecies ==
    (pc = "boundary" /\ ReferencesNameSpecies(before))
        => ReferencesNameSpecies(tree_value(heap, product))

\* a speciesReference that named a boundary species has been rewritten
C19_Witness ==
    /\ pc = "boundary"
    /\ ReferencesNameSpecies(before)
    /\ tree_value(heap, product).reactions # before.reactions
    /\ ReferencesNameSpecies(tree_value(heap, product))

\* C20: remove_model_identifier_prefix applied to the tree that it returned
\* returns the species ids, the speciesReference species values and the
\* about attributes of the annotations of that tree.
C20_PrefixIdempotent ==
    pc = "stripped"
        => /\ identifiers_of(tree_value(heap, product))
                  = identifiers_of(before)
           /\ \A i \in DOMAIN before.metabolites :
                  tree_value(heap, product).metabolites[i].about
                      = before.metabolites[i].about

\* each stage of main has been given the tree that the stage before it
\* returned: the copies are numbered in the order of their making
StagesInOrder ==
    /\ pc = "boundary" => content = Addr(1, "content", "", 0)
    /\ pc = "prefix" => content = Addr(2, "content", "", 0)
    /\ (pc = "identifiers" /\ pass = 1 /\ earlier = Null)
           => content = Addr(3, "content", "", 0)

\* C21: the stages of main run in the order compartment, boundary, prefix,
\* translation, each on the tree the stage before returned, and no species
\* id or speciesReference of the tree that the translation is given begins
\* with the prefix.
C21_TranslationSeesNoPrefix ==
    /\ StagesInOrder
    /\ (pc = "identifiers" /\ pass = 1 /\ earlier = Null)
           => \A t \in texts_of(before) : ~OccursAt(t, SpeciesPrefix, 1)

\* the rows of a table one after the other on a text, from the first row on
RECURSIVE FoldRows(_, _)
FoldRows(rows, t) ==
    IF rows = <<>> THEN t
    ELSE FoldRows(Tail(rows),
                  Replace(t, Head(rows).identifier_original \o <<"_">>,
                          Head(rows).identifier_novel \o <<"_">>))

Reversed(rows) == [i \in DOMAIN rows |-> rows[Len(rows) + 1 - i]]

\* C22: at the return of change_model_metabolites_identifiers every species
\* id and every speciesReference species value is the fold of the rows, in
\* the order of the table, over the value it had at the call.
C22_RowsInTableOrder ==
    pc = "identified"
        => /\ \A i \in DOMAIN before.metabolites :
                  tree_value(heap, product).metabolites[i].id
                      = FoldRows(metabolites_identifiers,
                                 before.metabolites[i].id)
           /\ \A i \in DOMAIN before.reactions :
                  \A j \in DOMAIN before.reactions[i] :
                      tree_value(heap, product).reactions[i][j]
                          = FoldRows(metabolites_identifiers,
                                     before.reactions[i][j])

\* rows (A to B) then (B to C): an id with A_ has come to hold C_, and the
\* table read backwards gives another id
C22_Witness ==
    /\ pc = "identified"
    /\ pass = 1
    /\ Len(metabolites_identifiers) = 2
    /\ metabolites_identifiers[1].identifier_novel
           = metabolites_identifiers[2].identifier_original
    /\ \E i \in DOMAIN before.metabolites :
          /\ Contains(before.metabolites[i].id,
                 metabolites_identifiers[1].identifier_original \o <<"_">>)
          /\ Contains(tree_value(heap, product).metabolites[i].id,
                 metabolites_identifiers[2].identifier_novel \o <<"_">>)
          /\ tree_value(heap, product).metabolites[i].id
                 # FoldRows(Reversed(metabolites_identifiers),
                            before.metabolites[i].id)

\* C23: if every speciesReference of the tree that
\* change_model_metabolites_identifiers is given names a species of that
\* tree, the same is true of its copy after every row and at the return.
C23_RowKeepsReferences ==
    (pc \in {"identifiers", "identified"} /\ ReferencesNameSpecies(before))
        => ReferencesNameSpecies(tree_value(heap, product))

\* the first of two rows has rewritten a speciesReference, and the second
\* row has not yet been applied
C23_Witness ==
    /\ pc = "identifiers"
    /\ row = 2
    /\ Len(metabolites_identifiers) = 2
    /\ ReferencesNameSpecies(before)
    /\ tree_value(heap, product).reactions # before.reactions
    /\ ReferencesNameSpecies(tree_value(heap, product))

\* the ids of the species of a tree are pairwise distinct
DistinctIdentifiers(v) ==
    \A i, j \in DOMAIN v.metabolites :
        v.metabolites[i].id = v.metabolites[j].id => i = j

\* C24: if the species ids of the tree given to change_model_boundary, to
\* remove_model_identifier_prefix or to
\* change_model_metabolites_identifiers are pairwise distinct, so are the
\* species ids of the tree that the stage returns.
C24_IdentifiersStayUnique ==
    (pc \in {"boundary", "prefix", "identified"}
         /\ DistinctIdentifiers(before))
        => DistinctIdentifiers(tree_value(heap, product))

\* every species of a tree has the id of a compartment of the tree as its
\* compartment
CompartmentsExist(v) ==
    \A i \in DOMAIN v.metabolites :
        \E k \in DOMAIN v.compartments :
            v.compartments[k].id = v.metabolites[i].compartment

\* C25: if every species of the tree given to change_model_boundary has a
\* compartment of the tree, so has every species of the tree it returns.
C25_CompartmentsExist ==
    (pc = "boundary" /\ CompartmentsExist(before))
        => CompartmentsExist(tree_value(heap, product))

\* C28: after changeModelMetabolitesIdentifiers of
\* curate_recon-2-m-2_metanetx.py with a table of two or more rows, every
\* speciesReference names a species of the returned tree if that was so in
\* the tree it was given.
C28_VariantKeepsReferences ==
    (pc = "curated" /\ Len(metabolites_identifiers) >= 2
         /\ ReferencesNameSpecies(before))
        => ReferencesNameSpecies(tree_value(heap, product))

\* C29: change_model_boundary leaves the compartment of every species whose
\* id it leaves as it was, and leaves every species without the word
\* boundary in its id as it was.
C29_CompartmentOnlyWithPattern ==
    pc = "boundary"
        => \A i \in DOMAIN before.metabolites :
              /\ tree_value(heap, product).metabolites[i].id
                     = before.metabolites[i].id
                  => tree_value(heap, product).metabolites[i].compartment
                         = before.metabolites[i].compartment
              /\ ~Contains(before.metabolites[i].id, BoundaryWord)
                  => tree_value(heap, product).metabolites[i]
                         = before.metabolites[i]

====
